---- MODULE Spec2Model ----
(***************************************************************************)
(* Virtio-blk front end of the OPI SPDK bridge (pkg/frontend/blk.go):      *)
(* the Registry s.Virt.BlkCtrls, the cursor map s.Pagination and the six   *)
(* request handlers of the Server, each taken as one atomic step.          *)
(***************************************************************************)
EXTENDS Integers, Sequences, FiniteSets, TLC

\* ---------------------------------------------------------------- bounds
MaxTokens == 2     \* cursor tokens minted in one behaviour of Spec
MaxList == 3       \* longest engine list a client pages through (SpecPaging)
MaxCursors == 2    \* cursor tokens minted in one behaviour of SpecPaging
MaxPageSize == 2   \* largest PageSize a caller asks for
MaxHostLen == 4    \* longest free-form text tried as the host part of a listen address
MaxQuadLen == 7    \* longest text of digits and dots tried as the host part
MaxGroupsLen == 5  \* longest text of digits and colons tried in brackets as the host part

\* ---------------------------------------------------------------- domains
Ids == {"blk-a", "blk-b"}
Vols == {"vol-1", "vol-2"}
PageSizes == (-1)..MaxPageSize

NoToken == ""
UnknownToken == "unknown-pagination-token"
NoObj == [Id |-> "", VolumeId |-> ""]

\* uuid.New().String(): the n-th identifier drawn by the process
UUID(n) == "uuid-" \o ToString(n)

PageTokens(n) == {NoToken, UnknownToken} \cup {UUID(i) : i \in 1..n}

\* errors s.rpc.Call can return (transport, ID mismatch, engine code, decode)
GatewayErrors == {"TransportFailure", "ProtocolMismatch", "EngineRejected", "DecodeFailure"}
BoolReplies == {"true", "false"}

\* replies the engine can give to vhost_get_controllers
RECURSIVE SeqsUpTo(_, _)
SeqsUpTo(S, n) ==
    IF n = 0 THEN {<<>>}
    ELSE LET shorter == SeqsUpTo(S, n - 1)
         IN  shorter \cup {Append(s, x) : s \in {t \in shorter : Len(t) = n - 1}, x \in S}
EngineLists(n) == SeqsUpTo(Ids, n)

\* engine lists in which every controller name occurs once at most
UniqueLists == {s \in SeqsUpTo(Ids, Cardinality(Ids)) : \A i, j \in 1..Len(s) : s[i] = s[j] => i = j}

VARIABLES
    BlkCtrls,     \* s.Virt.BlkCtrls : id -> stored VirtioBlk
    Pagination,   \* s.Pagination    : token -> offset
    nextUUID,     \* how many uuids have been drawn, plus one
    engine,       \* the engine's current list of vhost controllers
    last,         \* the request just handled and what it returned
    chain,        \* the chain of List calls a client is following
    tasks,        \* the goroutines serving requests at the same time, and where each is
    Nvme,         \* s.Nvme : the Registries of NVMe subsystems, controllers and namespaces
    listener      \* a listen address and what NewTCPSubsystemListener made of it

vars == <<BlkCtrls, Pagination, nextUUID, engine, last, chain, tasks, Nvme, listener>>

\* ---------------------------------------------------------------- helpers
Min(a, b) == IF a < b THEN a ELSE b
Max(a, b) == IF a > b THEN a ELSE b

\* Go's s[from:to] for 0 <= from <= to <= len(s), as a 1-based sequence
Slice(s, from, to) ==
    LET lo == Max(from, 0)
        hi == Min(to, Len(s))
    IN  IF hi <= lo THEN <<>> ELSE [i \in 1..(hi - lo) |-> s[lo + i]]

\* m[k] = v on a Go map
MapSet(m, k, v) == [x \in DOMAIN m \cup {k} |-> IF x = k THEN v ELSE m[x]]
\* delete(m, k) on a Go map
MapDelete(m, k) == [x \in DOMAIN m \ {k} |-> m[x]]

\* make(map[string]...)
EmptyMap == [x \in {} |-> 0]

Call(method, ctrlr) == [method |-> method, ctrlr |-> ctrlr]

Result(op, id, in, allowMissing, pageSize, pageToken, code, named, ret, items, next, rpc, reply) ==
    [op |-> op, id |-> id, in |-> in, allowMissing |-> allowMissing,
     pageSize |-> pageSize, pageToken |-> pageToken,
     code |-> code, named |-> named, ret |-> ret, items |-> items,
     next |-> next, rpc |-> rpc, reply |-> reply]

\* the code a client of the typed API sees: an error that is no gRPC status
\* arrives as Unknown (status.FromError)
GrpcCode(code) ==
    IF code \in {"OK", "NotFound", "InvalidArgument", "Unimplemented", "Internal"}
    THEN code ELSE "Unknown"

\* a goroutine that serves no request
IdleTask == [pc |-> "idle", op |-> "", id |-> "", vol |-> "", allowMissing |-> FALSE,
             pageToken |-> NoToken, offset |-> 0, ctrl |-> NoObj, next |-> NoToken,
             rpc |-> 0, code |-> "", ret |-> NoObj]

\* the goroutines the gRPC server runs handlers on
Tasks == {"t1", "t2"}

NoChain == [active |-> FALSE, size |-> 0, acc |-> <<>>, next |-> NoToken, calls |-> 0]

\* what last holds when the step just taken was not a request
NoRequest(op) == Result(op, "", NoObj, FALSE, 0, NoToken, "OK", "", NoObj, <<>>, NoToken, <<>>, "none")

\* s.Nvme after construction: three empty maps
NvmeEmpty == [Subsystems |-> EmptyMap, Controllers |-> EmptyMap, Namespaces |-> EmptyMap]

\* no listen address has been resolved
NoListener == [addr |-> <<>>, out |-> [kind |-> "none"]]

\* the Server after construction, in front of an engine whose list is one of lists
InitWith(lists) ==
    /\ BlkCtrls = EmptyMap
    /\ Pagination = EmptyMap
    /\ nextUUID = 1
    /\ engine \in lists
    /\ last = NoRequest("none")
    /\ chain = NoChain
    /\ tasks = [t \in Tasks |-> IdleTask]
    /\ Nvme = NvmeEmpty
    /\ listener = NoListener

Init == InitWith(UniqueLists)

\* ---------------------------------------------------------------- Create
\* (bug) the lookup never finds the id
CreateFoundNever(id) == FALSE

\* controller, ok := s.Virt.BlkCtrls[in.VirtioBlk.Id.Value]
CreateFound(id) == id \in DOMAIN BlkCtrls

\* the object written by s.Virt.BlkCtrls[id] = in.VirtioBlk
CreateStored(in) == in

\* (bug) the already-exists path echoes the request
CreateExistingSupplied(id, in) == in

\* the object returned on the already-exists path: return controller, nil
CreateExisting(id, in) == BlkCtrls[id]

\* (bug) the error of the call is dropped
CreateFailedNever(reply) == FALSE

\* (bug) only a failure of the transport ends the call
CreateFailedOnTransport(reply) == reply = "TransportFailure"

\* err := s.rpc.Call("vhost_create_blk_controller", ...); if err != nil { return nil, ... }
CreateFailed(reply) == reply \in GatewayErrors

\* (bug) the engine's result is not looked at
CreateRefusedNever(reply) == FALSE

\* if !result { return nil, ErrUnexpectedSpdkCallResult }
CreateRefused(reply) == reply = "false"

\* deepcopier.Copy(in.VirtioBlk).To(response)
CreateResponse(in) == [Id |-> in.Id, VolumeId |-> in.VolumeId]

CreateVirtioBlk(id, vol, reply, copyFails) ==
    LET in   == [Id |-> id, VolumeId |-> vol]
        call == Call("vhost_create_blk_controller", id)
        Ret(code, ret, rpc, rep) ==
            Result("Create", id, in, FALSE, 0, NoToken, code, "", ret, <<>>, NoToken, rpc, rep)
    IN  /\ IF CreateFound(id)
           THEN /\ last' = Ret("OK", CreateExisting(id, in), <<>>, "none")
                /\ UNCHANGED BlkCtrls
           ELSE IF CreateFailed(reply)
           THEN /\ last' = Ret("ErrFailedSpdkCall", NoObj, <<call>>, reply)
                /\ UNCHANGED BlkCtrls
           ELSE IF CreateRefused(reply)
           THEN /\ last' = Ret("ErrUnexpectedSpdkCallResult", NoObj, <<call>>, reply)
                /\ UNCHANGED BlkCtrls
           ELSE /\ BlkCtrls' = MapSet(BlkCtrls, id, CreateStored(in))
                /\ last' = IF copyFails
                           THEN Ret("Internal", NoObj, <<call>>, reply)
                           ELSE Ret("OK", CreateResponse(in), <<call>>, reply)
        /\ UNCHANGED <<Pagination, nextUUID, chain>>

\* ---------------------------------------------------------------- Delete
\* controller, ok := s.Virt.BlkCtrls[in.Name]
DeleteFound(name) == name \in DOMAIN BlkCtrls

\* (bug) AllowMissing is not looked at
DeleteMissingStrict(allowMissing) == "NotFound"

\* if in.AllowMissing { return &emptypb.Empty{}, nil }; else NotFound
DeleteMissingCode(allowMissing) == IF allowMissing THEN "OK" ELSE "NotFound"

\* params := spdk.VhostDeleteControllerParams{Ctrlr: in.Name}
DeleteParams(name) == name

\* (bug) the error of the call is dropped
DeleteFailedNever(reply) == FALSE

\* (bug) only a failure of the transport ends the call
DeleteFailedOnTransport(reply) == reply = "TransportFailure"

\* err := s.rpc.Call("vhost_delete_controller", ...); if err != nil { return nil, err }
DeleteFailed(reply) == reply \in GatewayErrors

\* (bug) the entry is kept when the engine answers false
DeleteRemovesOnTrue(reply) == reply = "true"

\* if !result { log } ; delete(...) : the entry is dropped whatever result is
DeleteRemoves(reply) == TRUE

\* delete(s.Virt.BlkCtrls, controller.Id.Value)
DeleteKey(name) == BlkCtrls[name].Id

DeleteVirtioBlk(name, allowMissing, reply) ==
    LET call == Call("vhost_delete_controller", DeleteParams(name))
        Ret(code, named, rpc, rep) ==
            Result("Delete", name, NoObj, allowMissing, 0, NoToken, code, named, NoObj, <<>>, NoToken, rpc, rep)
    IN  /\ IF ~DeleteFound(name)
           THEN /\ last' = Ret(DeleteMissingCode(allowMissing),
                               IF DeleteMissingCode(allowMissing) = "OK" THEN "" ELSE name,
                               <<>>, "none")
                /\ UNCHANGED BlkCtrls
           ELSE IF DeleteFailed(reply)
           THEN /\ last' = Ret(reply, "", <<call>>, reply)
                /\ UNCHANGED BlkCtrls
           ELSE /\ BlkCtrls' = IF DeleteRemoves(reply)
                               THEN MapDelete(BlkCtrls, DeleteKey(name))
                               ELSE BlkCtrls
                /\ last' = Ret("OK", "", <<call>>, reply)
        /\ UNCHANGED <<Pagination, nextUUID, chain>>

\* ---------------------------------------------------------------- Update
\* (bug) an Update of a known id is accepted
UpdateCodeWhenKnown(id) == IF id \in DOMAIN BlkCtrls THEN "OK" ELSE "Unimplemented"

\* return nil, status.Errorf(codes.Unimplemented, ...)
UpdateCode(id) == "Unimplemented"

UpdateVirtioBlk(id, vol) ==
    /\ last' = Result("Update", id, [Id |-> id, VolumeId |-> vol], FALSE, 0, NoToken,
                      UpdateCode(id), "", NoObj, <<>>, NoToken, <<>>, "none")
    /\ UNCHANGED <<BlkCtrls, Pagination, nextUUID, engine, chain>>

\* ---------------------------------------------------------------- Stats
VirtioBlkStats(id) ==
    /\ last' = Result("Stats", id, NoObj, FALSE, 0, NoToken,
                      "Unimplemented", "", NoObj, <<>>, NoToken, <<>>, "none")
    /\ UNCHANGED <<BlkCtrls, Pagination, nextUUID, engine, chain>>

\* ---------------------------------------------------------------- List
\* the module-wide page size used when the request's PageSize is zero
DefaultPageSize == 50

\* server.ExtractPagination(in.PageSize, in.PageToken, s.Pagination)
ExtractPagination(pageSize, pageToken, pagination) ==
    IF pageSize < 0
    THEN [size |-> -1, offset |-> -1, err |-> "InvalidArgument", named |-> ""]
    ELSE IF pageToken # NoToken /\ pageToken \notin DOMAIN pagination
    THEN [size |-> -1, offset |-> -1, err |-> "NotFound", named |-> pageToken]
    ELSE [size   |-> IF pageSize = 0 THEN DefaultPageSize ELSE pageSize,
          offset |-> IF pageToken = NoToken THEN 0 ELSE pagination[pageToken],
          err    |-> "OK", named |-> ""]

\* server.LimitPagination(result, offset, size): result[offset:end] with end
\* cut back to len(result); a Go slice expression whose start is past its end
\* panics (slice bounds out of range)
LimitPagination(result, offset, size) ==
    LET end == offset + size
    IN  [items |-> Slice(result, offset, Min(end, Len(result))),
         hasMoreElements |-> end < Len(result),
         panics |-> offset > Len(result)]

\* (bug) perr is not looked at
ListRejectedNever(p) == FALSE

\* (bug) only a bad page size ends the call
ListRejectedOnSize(p) == p.err = "InvalidArgument"

\* if perr != nil { return nil, perr }
ListRejected(p) == p.err # "OK"

\* (bug) a token is minted for every page that has elements
ListMintsOnAnyPage(lim) == Len(lim.items) > 0

\* (bug) a token is minted for every page
ListMintsAlways(lim) == TRUE

\* if hasMoreElements { token = uuid.New().String(); ... }
ListMints(lim) == lim.hasMoreElements

\* (bug) the new token forgets where the page started
ListNextOffsetSizeOnly(offset, size) == size

\* (bug) the new token resumes where the page started
ListNextOffsetStart(offset, size) == offset

\* the offset kept for the new token: offset + size
ListNextOffset(offset, size) == offset + size

\* (bug) the map is replaced by one that holds the new token only
ListRememberOnly(pagination, token, offset) == [x \in {token} |-> offset]

\* s.Pagination[token] = ...
ListRemember(pagination, token, offset) == MapSet(pagination, token, offset)

\* (bug) the error of the call is dropped
ListFailedNever(reply) == FALSE

\* err := s.rpc.Call("vhost_get_controllers", nil, &result); if err != nil { return nil, err }
ListFailed(reply) == reply \in GatewayErrors

\* (bug) every element is built from the first record
ListShapeFirst(result) == [i \in 1..Len(result) |-> [Id |-> result[1], VolumeId |-> "TBD"]]

\* Blobarray[i] = &pb.VirtioBlk{Id: r.Ctrlr, ..., VolumeId: "TBD"}
ListShape(result) == [i \in 1..Len(result) |-> [Id |-> result[i], VolumeId |-> "TBD"]]

\* (bug) records of controllers the Registry does not hold are left out
ListRecordsKnown(registry, result) == SelectSeq(result, LAMBDA r : r \in DOMAIN registry)

\* for i := range result { r := &result[i]; ... } : every record of the page
\* is shaped, whatever s.Virt.BlkCtrls holds
ListRecords(registry, result) == result

\* a client that starts at the empty token and feeds every NextPageToken
\* into its next call, with one page size
ChainAfter(pageSize, pageToken, items, token) ==
    IF pageToken = NoToken /\ pageSize >= 1
    THEN [active |-> TRUE, size |-> pageSize, acc |-> items, next |-> token, calls |-> 1]
    ELSE IF /\ chain.active /\ chain.next # NoToken
            /\ pageToken = chain.next /\ pageSize = chain.size
    THEN [chain EXCEPT !.acc = chain.acc \o items, !.next = token, !.calls = chain.calls + 1]
    ELSE chain

ListVirtioBlks(pageSize, pageToken, reply) ==
    LET p    == ExtractPagination(pageSize, pageToken, Pagination)
        call == Call("vhost_get_controllers", "")
        Ret(code, named, items, next, rpc, rep) ==
            Result("List", "", NoObj, FALSE, pageSize, pageToken, code, named, NoObj, items, next, rpc, rep)
    IN  IF ListRejected(p)
        THEN /\ last' = Ret(p.err, p.named, <<>>, NoToken, <<>>, "none")
             /\ UNCHANGED <<BlkCtrls, Pagination, nextUUID, engine>>
        ELSE IF ListFailed(reply)
        THEN /\ last' = Ret(reply, "", <<>>, NoToken, <<call>>, reply)
             /\ UNCHANGED <<BlkCtrls, Pagination, nextUUID, engine>>
        ELSE IF LimitPagination(engine, p.offset, p.size).panics
        THEN \* the handler never returns; it had written nothing yet
             /\ last' = Ret("Panic", "", <<>>, NoToken, <<call>>, reply)
             /\ UNCHANGED <<BlkCtrls, Pagination, nextUUID, engine>>
        ELSE LET lim   == LimitPagination(engine, p.offset, p.size)
                 token == IF ListMints(lim) THEN UUID(nextUUID) ELSE NoToken
                 items == ListShape(ListRecords(BlkCtrls, lim.items))
             IN  /\ Pagination' = IF ListMints(lim)
                                  THEN ListRemember(Pagination, token, ListNextOffset(p.offset, p.size))
                                  ELSE Pagination
                 /\ nextUUID' = IF ListMints(lim) THEN nextUUID + 1 ELSE nextUUID
                 /\ last' = Ret("OK", "", items, token, <<call>>, reply)
                 /\ UNCHANGED <<BlkCtrls, engine>>

\* ---------------------------------------------------------------- Get
\* _, ok := s.Virt.BlkCtrls[in.Name]
GetFound(name) == name \in DOMAIN BlkCtrls

\* replies the engine can give to vhost_get_controllers with a name
GetReplies == SeqsUpTo(Ids, 2)

GetVirtioBlk(name, reply, result) ==
    LET call == Call("vhost_get_controllers", name)
        Ret(code, named, ret, rpc, rep) ==
            Result("Get", name, NoObj, FALSE, 0, NoToken, code, named, ret,
                   IF rep = "list" THEN ListShape(result) ELSE <<>>, NoToken, rpc, rep)
    IN  /\ IF ~GetFound(name)
           THEN last' = Ret("InvalidArgument", name, NoObj, <<>>, "none")
           ELSE IF reply \in GatewayErrors
           THEN last' = Ret(reply, "", NoObj, <<call>>, reply)
           ELSE IF Len(result) # 1
           THEN last' = Ret("InvalidArgument", "", NoObj, <<call>>, "list")
           ELSE last' = Ret("OK", "", [Id |-> result[1], VolumeId |-> "TBD"], <<call>>, "list")
        /\ UNCHANGED <<BlkCtrls, Pagination, nextUUID, engine, chain>>

\* ---------------------------------------------------------------- engine
\* the engine's controller list changes (it is a separate process)
EngineChange(list) ==
    /\ list # engine
    /\ engine' = list
    /\ last' = NoRequest("Engine")
    /\ UNCHANGED <<BlkCtrls, Pagination, nextUUID, chain>>

\* ---------------------------------------------------------------- system
Create == \E id \in Ids, vol \in Vols, reply \in GatewayErrors \cup BoolReplies, copyFails \in BOOLEAN :
              /\ copyFails => reply = "true"
              /\ CreateVirtioBlk(id, vol, reply, copyFails)
              /\ UNCHANGED <<engine, tasks, Nvme, listener>>
Delete == \E name \in Ids, allowMissing \in BOOLEAN, reply \in GatewayErrors \cup BoolReplies :
              /\ DeleteVirtioBlk(name, allowMissing, reply)
              /\ UNCHANGED <<engine, tasks, Nvme, listener>>
Update == \E id \in Ids, vol \in Vols : UpdateVirtioBlk(id, vol) /\ UNCHANGED <<tasks, Nvme, listener>>
List   == \E pageSize \in PageSizes, pageToken \in PageTokens(MaxTokens), reply \in GatewayErrors \cup {"list"} :
              /\ ListVirtioBlks(pageSize, pageToken, reply)
              /\ nextUUID' <= MaxTokens + 1
              /\ UNCHANGED <<chain, tasks, Nvme, listener>>
Get    == \E name \in Ids, reply \in GatewayErrors \cup {"list"}, result \in GetReplies :
              /\ reply # "list" => result = <<>>
              /\ GetVirtioBlk(name, reply, result)
              /\ UNCHANGED <<tasks, Nvme, listener>>
Stats  == \E id \in Ids : VirtioBlkStats(id) /\ UNCHANGED <<tasks, Nvme, listener>>
Engine == \E list \in UniqueLists : EngineChange(list) /\ UNCHANGED <<tasks, Nvme, listener>>

Next == Create \/ Delete \/ Update \/ List \/ Get \/ Stats \/ Engine

Spec == Init /\ [][Next]_vars

\* a client pages through a list the engine keeps fixed, while other List
\* calls (any size, any token) are served in between; a call the Gateway
\* fails is one of them, whatever the kind of the failure
ClientList == \E pageSize \in PageSizes, pageToken \in PageTokens(MaxCursors), reply \in {"TransportFailure", "list"} :
                  /\ ListVirtioBlks(pageSize, pageToken, reply)
                  /\ nextUUID' <= MaxCursors + 1
                  /\ chain' = IF last'.code = "OK"
                              THEN ChainAfter(pageSize, pageToken, last'.items, last'.next)
                              ELSE chain
                  /\ UNCHANGED <<tasks, Nvme, listener>>

NextPaging == ClientList

InitPaging == InitWith(EngineLists(MaxList))

SpecPaging == InitPaging /\ [][NextPaging]_vars

\* a caller in the same process as the Server, which keeps the pointers it
\* passed to and got from CreateVirtioBlk and writes through them afterwards
Objs == [Id : Ids, VolumeId : Vols]

\* s.Virt.BlkCtrls[in.VirtioBlk.Id.Value] = in.VirtioBlk : the entry is the
\* request's object itself whenever the Create went past the engine call
StoredIsRequest(r) == r.rpc # <<>>

\* return controller, nil : the already-exists path hands out the entry
\* itself; the other path hands out the response built by deepcopier
ReturnedIsEntry(r) == r.rpc = <<>>

\* the caller of the successful Create just served writes obj into the
\* object it passed as in.VirtioBlk
CallerMutatesRequest(obj) ==
    /\ last.op = "Create" /\ last.code = "OK"
    /\ obj # last.in
    /\ BlkCtrls' = IF StoredIsRequest(last)
                   THEN [BlkCtrls EXCEPT ![last.id] = obj]
                   ELSE BlkCtrls
    /\ last' = Result("MutateRequest", last.id, obj, FALSE, 0, NoToken,
                      "OK", "", NoObj, <<>>, NoToken, <<>>, "none")
    /\ UNCHANGED <<Pagination, nextUUID, engine, chain>>

\* the caller of the successful Create just served writes obj into the
\* object that Create returned
CallerMutatesReturned(obj) ==
    /\ last.op = "Create" /\ last.code = "OK"
    /\ obj # last.ret
    /\ BlkCtrls' = IF ReturnedIsEntry(last)
                   THEN [BlkCtrls EXCEPT ![last.id] = obj]
                   ELSE BlkCtrls
    /\ last' = Result("MutateReturned", last.id, obj, FALSE, 0, NoToken,
                      "OK", "", NoObj, <<>>, NoToken, <<>>, "none")
    /\ UNCHANGED <<Pagination, nextUUID, engine, chain>>

MutateRequest  == \E obj \in Objs : CallerMutatesRequest(obj) /\ UNCHANGED <<tasks, Nvme, listener>>
MutateReturned == \E obj \in Objs : CallerMutatesReturned(obj) /\ UNCHANGED <<tasks, Nvme, listener>>

NextAlias == Create \/ Delete \/ MutateRequest \/ MutateReturned

SpecAlias == Init /\ [][NextAlias]_vars

\* ---------------------------------------------------------------- requests served at the same time
\* Each request runs on a goroutine of its own. A handler is cut where it
\* touches a map and where it calls the engine:
\*   "read"  : inside its read of a map (blk.go:29, 64, 99, 132)
\*   "call"  : the read is over, s.rpc.Call is next (blk.go:40, 77, 105, 142)
\*   "write" : inside its write of a map (blk.go:50, 86, 116)
\*   "done"  : the handler has returned
\*   "fatal" : the Go runtime has stopped the process on a map data race
\* The handlers take no lock, so nothing keeps a goroutine out of a map while
\* another one is inside it.

\* the page size of the List requests served concurrently
ConcPageSize == 1

\* the map a handler reads first and writes last
MapOf(op) == IF op = "List" THEN "Pagination" ELSE "BlkCtrls"

Accessing(t) == tasks[t].pc \in {"read", "write"}
Writing(t) == tasks[t].pc = "write"

\* another goroutine is inside the same map and one of the two is writing
Racing(t) ==
    \E u \in Tasks \ {t} :
        /\ Accessing(t) /\ Accessing(u)
        /\ MapOf(tasks[t].op) = MapOf(tasks[u].op)
        /\ Writing(t) \/ Writing(u)

\* fatal error: concurrent map writes / concurrent map read and map write
Crashed == \E t \in Tasks : tasks[t].pc = "fatal"

\* what is left of a request once its handler has returned
Returned(r, code, ret) ==
    [IdleTask EXCEPT !.pc = "done", !.op = r.op, !.id = r.id, !.vol = r.vol,
                     !.rpc = r.rpc, !.code = code, !.ret = ret]

\* the gRPC server hands a request to a goroutine, which enters its first map read
ConcStart(t, op, id, vol, allowMissing, pageToken) ==
    /\ ~Crashed
    /\ tasks[t].pc \in {"idle", "done"}
    /\ tasks' = [tasks EXCEPT ![t] =
                    [IdleTask EXCEPT !.pc = "read", !.op = op, !.id = id, !.vol = vol,
                                     !.allowMissing = allowMissing, !.pageToken = pageToken]]
    /\ UNCHANGED <<BlkCtrls, Pagination, nextUUID, engine, last, chain, Nvme, listener>>

\* the first map read of the handler ends
ConcRead(t) ==
    LET r  == tasks[t]
        in == [Id |-> r.id, VolumeId |-> r.vol]
        p  == ExtractPagination(ConcPageSize, r.pageToken, Pagination)
    IN  /\ ~Crashed
        /\ r.pc = "read"
        /\ tasks' = [tasks EXCEPT ![t] =
              CASE r.op = "Create" ->
                     IF CreateFound(r.id)
                     THEN Returned(r, "OK", CreateExisting(r.id, in))
                     ELSE [r EXCEPT !.pc = "call"]
                [] r.op = "Delete" ->
                     IF ~DeleteFound(r.id)
                     THEN Returned(r, DeleteMissingCode(r.allowMissing), NoObj)
                     ELSE [r EXCEPT !.pc = "call", !.ctrl = BlkCtrls[r.id]]
                [] r.op = "Get" ->
                     IF ~GetFound(r.id)
                     THEN Returned(r, "InvalidArgument", NoObj)
                     ELSE [r EXCEPT !.pc = "call"]
                [] r.op = "List" ->
                     IF ListRejected(p)
                     THEN Returned(r, p.err, NoObj)
                     ELSE [r EXCEPT !.pc = "call", !.offset = p.offset]]
        /\ UNCHANGED <<BlkCtrls, Pagination, nextUUID, engine, last, chain, Nvme, listener>>

\* s.rpc.Call and the tests of its outcome, up to the return or to the map write
ConcCall(t, reply) ==
    LET r   == [tasks[t] EXCEPT !.rpc = @ + 1]
        lim == LimitPagination(engine, r.offset, ConcPageSize)
    IN  /\ ~Crashed
        /\ r.pc = "call"
        /\ reply \in (IF r.op \in {"Create", "Delete"} THEN BoolReplies ELSE {"list"})
                     \cup {"TransportFailure"}
        /\ tasks' = [tasks EXCEPT ![t] =
              CASE r.op = "Create" ->
                     IF CreateFailed(reply) THEN Returned(r, "ErrFailedSpdkCall", NoObj)
                     ELSE IF CreateRefused(reply) THEN Returned(r, "ErrUnexpectedSpdkCallResult", NoObj)
                     ELSE [r EXCEPT !.pc = "write"]
                [] r.op = "Delete" ->
                     IF DeleteFailed(reply) THEN Returned(r, reply, NoObj)
                     ELSE IF DeleteRemoves(reply) THEN [r EXCEPT !.pc = "write"]
                     ELSE Returned(r, "OK", NoObj)
                [] r.op = "Get" ->
                     IF reply \in GatewayErrors THEN Returned(r, reply, NoObj)
                     ELSE Returned(r, "OK", [Id |-> r.id, VolumeId |-> "TBD"])
                [] r.op = "List" ->
                     IF reply \in GatewayErrors THEN Returned(r, reply, NoObj)
                     ELSE IF lim.panics THEN Returned(r, "Panic", NoObj)
                     ELSE IF ListMints(lim) THEN [r EXCEPT !.pc = "write", !.next = UUID(nextUUID)]
                     ELSE Returned(r, "OK", NoObj)]
        /\ nextUUID' = IF r.op = "List" /\ reply = "list" /\ ~lim.panics /\ ListMints(lim)
                       THEN nextUUID + 1 ELSE nextUUID
        /\ nextUUID' <= MaxTokens + 1
        /\ UNCHANGED <<BlkCtrls, Pagination, engine, last, chain, Nvme, listener>>

\* the map write of the handler ends, and the handler returns
ConcWrite(t, copyFails) ==
    LET r  == tasks[t]
        in == [Id |-> r.id, VolumeId |-> r.vol]
    IN  /\ ~Crashed
        /\ r.pc = "write"
        /\ copyFails => r.op = "Create"
        /\ BlkCtrls' = CASE r.op = "Create" -> MapSet(BlkCtrls, r.id, CreateStored(in))
                         [] r.op = "Delete" -> MapDelete(BlkCtrls, r.ctrl.Id)
                         [] OTHER -> BlkCtrls
        /\ Pagination' = IF r.op = "List"
                         THEN ListRemember(Pagination, r.next, ListNextOffset(r.offset, ConcPageSize))
                         ELSE Pagination
        /\ tasks' = [tasks EXCEPT ![t] =
              IF r.op = "Create"
              THEN IF copyFails THEN Returned(r, "Internal", NoObj)
                                ELSE Returned(r, "OK", CreateResponse(in))
              ELSE Returned(r, "OK", NoObj)]
        /\ UNCHANGED <<nextUUID, engine, last, chain, Nvme, listener>>

\* the runtime notices the race on the map the goroutine is inside and ends
\* the process (its check is best effort: the access may also go through)
ConcFatal(t) ==
    /\ ~Crashed
    /\ Racing(t)
    /\ tasks' = [tasks EXCEPT ![t].pc = "fatal"]
    /\ UNCHANGED <<BlkCtrls, Pagination, nextUUID, engine, last, chain, Nvme, listener>>

Start  == \E t \in Tasks, op \in {"Create", "Delete", "Get", "List"}, id \in Ids, vol \in Vols,
             allowMissing \in BOOLEAN, pageToken \in PageTokens(MaxTokens) :
              /\ op # "Create" => vol = "vol-1"
              /\ op # "Delete" => ~allowMissing
              /\ op # "List" => pageToken = NoToken
              /\ op = "List" => id = "blk-a"
              /\ ConcStart(t, op, IF op = "List" THEN "" ELSE id, IF op = "Create" THEN vol ELSE "",
                           allowMissing, pageToken)
Read   == \E t \in Tasks : ConcRead(t)
Called == \E t \in Tasks, reply \in GatewayErrors \cup BoolReplies \cup {"list"} : ConcCall(t, reply)
Write  == \E t \in Tasks, copyFails \in BOOLEAN : ConcWrite(t, copyFails)
Fatal  == \E t \in Tasks : ConcFatal(t)

NextConc == Start \/ Read \/ Called \/ Write \/ Fatal

\* the engine holds two controllers and keeps them
InitConc == InitWith({<<"blk-a", "blk-b">>})

SpecConc == InitConc /\ [][NextConc]_vars

\* ---------------------------------------------------------------- the Gateway under the handlers
\* what the Gateway reads from the engine connection after it sent a request:
\* nothing at all, or a reply {"id": .., "error": {"code": ..}, "result": ..}
\* whose id is the one just sent or another one
EOF == [eof |-> TRUE, id |-> "", error |-> 0, result |-> ""]
WireReplies == {EOF} \cup [eof : {FALSE}, id : {"sent", "other"}, error : {0, 1},
                           result : {"true", "false", "list"}]

\* the shape of a result payload
ShapeOf(result) == IF result = "list" THEN "list" ELSE "bool"

\* s.rpc.Call(method, &params, &result): the error of the call, or the
\* decoded result
GatewayCall(wire, want) ==
    IF wire.eof THEN "TransportFailure"
    ELSE IF wire.id # "sent" THEN "ProtocolMismatch"
    ELSE IF wire.error # 0 THEN "EngineRejected"
    ELSE IF ShapeOf(wire.result) # want THEN "DecodeFailure"
    ELSE wire.result

WireCreate == \E id \in Ids, vol \in Vols, wire \in WireReplies :
                  /\ CreateVirtioBlk(id, vol, GatewayCall(wire, "bool"), FALSE)
                  /\ UNCHANGED <<engine, tasks, Nvme, listener>>
WireDelete == \E name \in Ids, allowMissing \in BOOLEAN, wire \in WireReplies :
                  /\ DeleteVirtioBlk(name, allowMissing, GatewayCall(wire, "bool"))
                  /\ UNCHANGED <<engine, tasks, Nvme, listener>>
WireList   == \E pageSize \in PageSizes, pageToken \in PageTokens(MaxTokens), wire \in WireReplies :
                  /\ ListVirtioBlks(pageSize, pageToken, GatewayCall(wire, "list"))
                  /\ nextUUID' <= MaxTokens + 1
                  /\ UNCHANGED <<chain, tasks, Nvme, listener>>
WireGet    == \E name \in Ids, wire \in WireReplies, result \in GetReplies :
                  /\ GatewayCall(wire, "list") # "list" => result = <<>>
                  /\ GetVirtioBlk(name, GatewayCall(wire, "list"), result)
                  /\ UNCHANGED <<tasks, Nvme, listener>>

NextWire == WireCreate \/ WireDelete \/ WireList \/ WireGet

SpecWire == Init /\ [][NextWire]_vars

\* ---------------------------------------------------------------- an engine only the bridge drives
\* The engine's controllers change through the create and delete calls of the
\* bridge alone; the engine answers true exactly when it acted, and an error
\* of the Gateway means that it did not act.
Controllers(list) == {list[i] : i \in 1..Len(list)}

\* what the engine can answer to vhost_create_blk_controller(name): it cannot
\* create a controller it already has
VhostCreateReplies(name) ==
    GatewayErrors \cup {"false"} \cup (IF name \in Controllers(engine) THEN {} ELSE {"true"})

\* what the engine can answer to vhost_delete_controller(name): it cannot
\* delete a controller it does not have
VhostDeleteReplies(name) ==
    GatewayErrors \cup {"false"} \cup (IF name \in Controllers(engine) THEN {"true"} ELSE {})

\* the engine's list after it answered reply to a create call
VhostCreated(name, reply) == IF reply = "true" THEN Append(engine, name) ELSE engine

\* the engine's list after it answered reply to a delete call
VhostDeleted(name, reply) ==
    IF reply = "true" THEN SelectSeq(engine, LAMBDA c : c # name) ELSE engine

BridgeCreate == \E id \in Ids, vol \in Vols, copyFails \in BOOLEAN :
                    \E reply \in VhostCreateReplies(id) :
                        /\ copyFails => reply = "true"
                        /\ CreateVirtioBlk(id, vol, reply, copyFails)
                        /\ engine' = IF last'.rpc # <<>> THEN VhostCreated(id, reply) ELSE engine
                        /\ UNCHANGED <<tasks, Nvme, listener>>
BridgeDelete == \E name \in Ids, allowMissing \in BOOLEAN :
                    \E reply \in VhostDeleteReplies(DeleteParams(name)) :
                        /\ DeleteVirtioBlk(name, allowMissing, reply)
                        /\ engine' = IF last'.rpc # <<>>
                                      THEN VhostDeleted(DeleteParams(name), reply) ELSE engine
                        /\ UNCHANGED <<tasks, Nvme, listener>>

NextEngine == BridgeCreate \/ BridgeDelete \/ List \/ Get

\* a fresh Server in front of an engine that holds no controller yet
InitEngine == InitWith({<<>>})

SpecEngine == InitEngine /\ [][NextEngine]_vars

\* ---------------------------------------------------------------- NVMe subsystems and their children
SubsysIds == {"subsystem-test", "unknown-subsystem-id"}
ChildIds == {"controller-test", "namespace-test"}

\* the Registry and the engine method of a kind of child
ChildKinds == {"Controllers", "Namespaces"}
ChildMethod(kind) == IF kind = "Controllers" THEN "nvmf_subsystem_add_listener"
                                             ELSE "nvmf_subsystem_add_ns"
ChildOp(kind) == IF kind = "Controllers" THEN "CreateNVMeController"
                                         ELSE "CreateNVMeNamespace"

\* (bug) the referenced Subsystem is not looked up
ParentFoundAlways(subsys) == TRUE

\* subsys, ok := s.Nvme.Subsystems[in.Spec.SubsystemId.Value]
ParentFound(subsys) == subsys \in DOMAIN Nvme.Subsystems

\* CreateNVMeSubsystem: the Create of section 4.2 for a kind without parent
CreateNVMeSubsystem(id, reply) ==
    LET in   == [Id |-> id, SubsystemId |-> ""]
        call == Call("nvmf_create_subsystem", id)
        Ret(code, named, ret, rpc, rep) ==
            Result("CreateNVMeSubsystem", id, in, FALSE, 0, NoToken, code, named, ret,
                   <<>>, NoToken, rpc, rep)
    IN  /\ IF id \in DOMAIN Nvme.Subsystems
           THEN /\ last' = Ret("OK", "", Nvme.Subsystems[id], <<>>, "none")
                /\ UNCHANGED Nvme
           ELSE IF reply \in GatewayErrors
           THEN /\ last' = Ret(reply, "", NoObj, <<call>>, reply)
                /\ UNCHANGED Nvme
           ELSE IF reply = "false"
           THEN /\ last' = Ret("InvalidArgument", id, NoObj, <<call>>, reply)
                /\ UNCHANGED Nvme
           ELSE /\ Nvme' = [Nvme EXCEPT !.Subsystems = MapSet(@, id, in)]
                /\ last' = Ret("OK", "", in, <<call>>, reply)
        /\ UNCHANGED <<BlkCtrls, Pagination, nextUUID, engine, chain, tasks, listener>>

\* CreateNVMeController, CreateNVMeNamespace: the Create of section 4.2 for a
\* kind whose objects name a Subsystem
CreateNVMeChild(kind, id, subsys, reply) ==
    LET in   == [Id |-> id, SubsystemId |-> subsys]
        call == Call(ChildMethod(kind), id)
        Ret(code, named, ret, rpc, rep) ==
            Result(ChildOp(kind), id, in, FALSE, 0, NoToken, code, named, ret,
                   <<>>, NoToken, rpc, rep)
    IN  /\ IF id \in DOMAIN Nvme[kind]
           THEN /\ last' = Ret("OK", "", Nvme[kind][id], <<>>, "none")
                /\ UNCHANGED Nvme
           ELSE IF ~ParentFound(subsys)
           THEN /\ last' = Ret("NotFound", subsys, NoObj, <<>>, "none")
                /\ UNCHANGED Nvme
           ELSE IF reply \in GatewayErrors
           THEN /\ last' = Ret(reply, "", NoObj, <<call>>, reply)
                /\ UNCHANGED Nvme
           ELSE IF reply = "false"
           THEN /\ last' = Ret("InvalidArgument", id, NoObj, <<call>>, reply)
                /\ UNCHANGED Nvme
           ELSE /\ Nvme' = [Nvme EXCEPT ![kind] = MapSet(@, id, in)]
                /\ last' = Ret("OK", "", in, <<call>>, reply)
        /\ UNCHANGED <<BlkCtrls, Pagination, nextUUID, engine, chain, tasks, listener>>

CreateSubsystem  == \E id \in SubsysIds, reply \in GatewayErrors \cup BoolReplies :
                        CreateNVMeSubsystem(id, reply)
CreateController == \E id \in ChildIds, subsys \in SubsysIds, reply \in GatewayErrors \cup BoolReplies :
                        CreateNVMeChild("Controllers", id, subsys, reply)
CreateNamespace  == \E id \in ChildIds, subsys \in SubsysIds, reply \in GatewayErrors \cup BoolReplies :
                        CreateNVMeChild("Namespaces", id, subsys, reply)

NextNvme == CreateSubsystem \/ CreateController \/ CreateNamespace

\* the Server after construction; the list of vhost controllers plays no part
InitNvme == InitWith({<<>>})

SpecNvme == InitNvme /\ [][NextNvme]_vars

\* ---------------------------------------------------------------- listen addresses
\* A listen address is a sequence of characters. One digit, which is a
\* decimal and a hexadecimal digit and never makes a field too large, stands
\* for the digits; "w" stands for every character an address has no use for.
Digits == {"1"}
Chars == Digits \cup {".", ":", "[", "]", "w"}

\* the host parts and the endings the addresses are put together from
HostTexts == SeqsUpTo(Chars, MaxHostLen) \cup SeqsUpTo(Digits \cup {"."}, MaxQuadLen)
                 \cup {<<"[">> \o t \o <<"]">> : t \in SeqsUpTo(Digits \cup {":"}, MaxGroupsLen)}
Endings == {<<>>, <<":">>, <<":", "1">>, <<":", "w">>}
Addresses == {h \o e : h \in HostTexts, e \in Endings}

\* strings.IndexByte / strings.LastIndexByte, counting from 1, 0 when absent
IndexByte(s, c) == IF \E i \in 1..Len(s) : s[i] = c
                   THEN CHOOSE i \in 1..Len(s) : s[i] = c /\ \A j \in 1..(i - 1) : s[j] # c
                   ELSE 0
LastIndexByte(s, c) == IF \E i \in 1..Len(s) : s[i] = c
                       THEN CHOOSE i \in 1..Len(s) : s[i] = c /\ \A j \in (i + 1)..Len(s) : s[j] # c
                       ELSE 0

NoSplit == [ok |-> FALSE, host |-> <<>>, port |-> <<>>]

\* net.SplitHostPort: the port follows the last colon; a host in brackets
\* ends right before that colon; a host without brackets holds no colon; no
\* other bracket anywhere
SplitHostPort(a) ==
    LET i    == LastIndexByte(a, ":")
        end  == IndexByte(a, "]")
        port == SubSeq(a, i + 1, Len(a))
    IN  IF i = 0 THEN NoSplit
        ELSE IF a[1] = "["
        THEN IF end = 0 \/ end + 1 # i THEN NoSplit
             ELSE IF IndexByte(SubSeq(a, 2, Len(a)), "[") # 0 THEN NoSplit
             ELSE IF IndexByte(SubSeq(a, end + 1, Len(a)), "]") # 0 THEN NoSplit
             ELSE [ok |-> TRUE, host |-> SubSeq(a, 2, end - 1), port |-> port]
        ELSE IF IndexByte(SubSeq(a, 1, i - 1), ":") # 0 THEN NoSplit
             ELSE IF IndexByte(a, "[") # 0 \/ IndexByte(a, "]") # 0 THEN NoSplit
             ELSE [ok |-> TRUE, host |-> SubSeq(a, 1, i - 1), port |-> port]

\* the IPv4 parse, from position i on with fields read and digits of the
\* field being read: four fields of one to three digits, dots between them
RECURSIVE ScanIPv4(_, _, _, _)
ScanIPv4(s, i, fields, digits) ==
    IF i > Len(s) THEN fields = 3 /\ digits >= 1
    ELSE IF s[i] \in Digits THEN digits < 3 /\ ScanIPv4(s, i + 1, fields, digits + 1)
    ELSE IF s[i] = "." THEN digits >= 1 /\ fields < 3 /\ ScanIPv4(s, i + 1, fields + 1, 0)
    ELSE FALSE

\* (bug) three fields are enough
ParseIPv4Short(s) == ScanIPv4(s, 1, 0, 0) \/ ScanIPv4(s, 1, 1, 0)

ParseIPv4(s) == ScanIPv4(s, 1, 0, 0)

\* the number of hexadecimal digits of s from position i on
RECURSIVE HexRun(_, _)
HexRun(s, i) == IF i <= Len(s) /\ s[i] \in Digits THEN 1 + HexRun(s, i + 1) ELSE 0

\* the IPv6 parse, from position i on, where a group is due, with groups read
\* and ellipsis telling whether "::" was met: groups of one to four digits,
\* colons between them, "::" at most once and only in place of a group
RECURSIVE ScanIPv6(_, _, _, _)
ScanIPv6(s, i, groups, ellipsis) ==
    LET n == HexRun(s, i)
        j == i + n
        done(g, e) == IF g < 8 THEN e ELSE ~e
    IN  IF groups >= 8 \/ n = 0 \/ n > 4 THEN FALSE
        ELSE IF j > Len(s) THEN done(groups + 1, ellipsis)
        ELSE IF s[j] # ":" \/ j = Len(s) THEN FALSE
        ELSE IF s[j + 1] = ":"
        THEN IF ellipsis THEN FALSE
             ELSE IF j + 1 = Len(s) THEN done(groups + 1, TRUE)
             ELSE ScanIPv6(s, j + 2, groups + 1, TRUE)
        ELSE ScanIPv6(s, j + 1, groups + 1, ellipsis)

ParseIPv6(s) ==
    IF Len(s) >= 2 /\ s[1] = ":" /\ s[2] = ":"
    THEN Len(s) = 2 \/ ScanIPv6(s, 3, 0, TRUE)
    ELSE ScanIPv6(s, 1, 0, FALSE)

Panic == [kind |-> "panic"]
Descriptor(protocol, host, port) ==
    [kind |-> "listener", protocol |-> protocol, host |-> host, port |-> port]

\* NewTCPSubsystemListener(listenAddr): split host:port, try the host as
\* IPv4, then as IPv6; panic on everything else
NewTCPSubsystemListener(a) ==
    LET sp == SplitHostPort(a)
    IN  IF ~sp.ok THEN Panic
        ELSE IF ParseIPv4(sp.host) THEN Descriptor("ipv4", sp.host, sp.port)
        ELSE IF ParseIPv6(sp.host) THEN Descriptor("ipv6", sp.host, sp.port)
        ELSE Panic

\* the resolver is handed an address
Resolve ==
    /\ listener.out.kind = "none"
    /\ listener' = [listener EXCEPT !.out = NewTCPSubsystemListener(listener.addr)]
    /\ UNCHANGED <<BlkCtrls, Pagination, nextUUID, engine, last, chain, tasks, Nvme>>

NextListener == Resolve

InitListener ==
    /\ BlkCtrls = EmptyMap
    /\ Pagination = EmptyMap
    /\ nextUUID = 1
    /\ engine = <<>>
    /\ last = NoRequest("none")
    /\ chain = NoChain
    /\ tasks = [t \in Tasks |-> IdleTask]
    /\ Nvme = NvmeEmpty
    /\ listener \in {[addr |-> a, out |-> [kind |-> "none"]] : a \in Addresses}

SpecListener == InitListener /\ [][NextListener]_vars

\* ================================================================ properties
\* In a step that changes the state, last' is the request that step handled
\* and the unprimed variables are the state the handler started from.

\* C1: a Create for an id that follows a successful Create for the same id
\* succeeds, returns the object the Registry holds for the id and calls the
\* engine not at all; and no Create for an id that is in the Registry issues
\* vhost_create_blk_controller.
C1_IdempotentCreate ==
    [][ /\ ( /\ last.op = "Create" /\ last.code = "OK"
             /\ last'.op = "Create" /\ last'.id = last.id )
           => /\ last.id \in DOMAIN BlkCtrls
              /\ last'.code = "OK"
              /\ last'.ret = BlkCtrls[last.id]
              /\ last'.rpc = <<>>
              /\ BlkCtrls' = BlkCtrls
        /\ ( last'.op = "Create" /\ last'.id \in DOMAIN BlkCtrls )
           => last'.rpc = <<>>
      ]_vars

\* a Create answered from the Registry, with the stored object
C1_Witness ==
    /\ last.op = "Create" /\ last.code = "OK" /\ last.rpc = <<>>
    /\ last.id \in DOMAIN BlkCtrls /\ last.ret = BlkCtrls[last.id]

\* C2: a Create whose id is in the Registry with a spec other than the
\* supplied one returns the stored object, not the supplied one, and leaves
\* the Registry as it was.
C2_StoredObjectWins ==
    [][ ( /\ last'.op = "Create" /\ last'.id \in DOMAIN BlkCtrls
          /\ last'.in # BlkCtrls[last'.id] )
        => /\ last'.code = "OK"
           /\ last'.ret = BlkCtrls[last'.id]
           /\ last'.ret # last'.in
           /\ BlkCtrls' = BlkCtrls
      ]_vars

\* a Create with another VolumeId than the stored one, answered with the stored one
C2_Witness ==
    /\ last.op = "Create" /\ last.code = "OK" /\ last.rpc = <<>>
    /\ last.id \in DOMAIN BlkCtrls
    /\ last.in.VolumeId # BlkCtrls[last.id].VolumeId
    /\ last.ret = BlkCtrls[last.id]

\* C3: a Delete of an id that is not in the Registry makes no engine call and
\* leaves the Registry unchanged; it succeeds when allowMissing is set and
\* fails with NotFound naming the id otherwise.
C3_DeleteAbsent ==
    [][ ( last'.op = "Delete" /\ last'.id \notin DOMAIN BlkCtrls )
        => /\ last'.rpc = <<>>
           /\ BlkCtrls' = BlkCtrls
           /\ IF last'.allowMissing
              THEN last'.code = "OK"
              ELSE last'.code = "NotFound" /\ last'.named = last'.id
      ]_vars

\* a Delete with allowMissing that found nothing and succeeded without a call
C3_Witness ==
    /\ last.op = "Delete" /\ last.allowMissing /\ last.code = "OK"
    /\ last.rpc = <<>> /\ last.reply = "none"
    /\ last.id \notin DOMAIN BlkCtrls

OffsetOf(pageToken, pagination) == IF pageToken = NoToken THEN 0 ELSE pagination[pageToken]
SizeOf(pageSize) == IF pageSize = 0 THEN DefaultPageSize ELSE pageSize

\* C6: while a client follows a chain of List calls over a fixed engine list
\* (first call with the empty token, each later call with the NextPageToken
\* of the one before, one page size P >= 1), the pages received so far are
\* the first min(calls * P, N) records of the list, in the engine's order; the
\* token in hand resumes right after them; and the token is empty exactly
\* when all N records have been received.
C6_PaginationChain ==
    chain.active =>
        LET n == Len(engine)
            k == Len(chain.acc)
        IN  /\ chain.size >= 1
            /\ k = Min(chain.calls * chain.size, n)
            /\ chain.acc = ListShape(Slice(engine, 0, k))
            /\ (chain.next = NoToken) <=> (k = n)
            /\ chain.next # NoToken =>
                  /\ chain.next \in DOMAIN Pagination
                  /\ Pagination[chain.next] = k

\* a chain of three calls that has delivered a list of three records
C6_Witness ==
    /\ chain.active /\ chain.calls = 3 /\ chain.next = NoToken
    /\ Len(engine) = 3 /\ chain.acc = ListShape(engine)

\* C7: a List with a negative PageSize fails with InvalidArgument, makes no
\* engine call and changes neither the Pagination map nor the Registry,
\* whatever its PageToken.
C7_NegativePageSize ==
    [][ ( last'.op = "List" /\ last'.pageSize < 0 )
        => /\ last'.code = "InvalidArgument"
           /\ last'.rpc = <<>>
           /\ Pagination' = Pagination
           /\ BlkCtrls' = BlkCtrls
      ]_vars

\* a List with a negative PageSize and a token the map knows, rejected
C7_Witness ==
    /\ last.op = "List" /\ last.pageSize < 0
    /\ last.pageToken \in DOMAIN Pagination
    /\ last.code = "InvalidArgument" /\ last.rpc = <<>>

\* C8 as stated: a List with a non-empty PageToken that is no key of the
\* Pagination map fails with NotFound naming the token, makes no engine call
\* and leaves the map unchanged.
C8_UnknownTokenOriginal ==
    [][ ( /\ last'.op = "List" /\ last'.pageToken # NoToken
          /\ last'.pageToken \notin DOMAIN Pagination )
        => /\ last'.code = "NotFound" /\ last'.named = last'.pageToken
           /\ last'.rpc = <<>>
           /\ Pagination' = Pagination
      ]_vars

\* C8 amended: a List with a PageSize >= 0 and a non-empty PageToken that is
\* no key of the Pagination map fails with NotFound naming the token, makes
\* no engine call and leaves the map unchanged.
C8_UnknownToken ==
    [][ ( /\ last'.op = "List" /\ last'.pageSize >= 0
          /\ last'.pageToken # NoToken
          /\ last'.pageToken \notin DOMAIN Pagination )
        => /\ last'.code = "NotFound" /\ last'.named = last'.pageToken
           /\ last'.rpc = <<>>
           /\ Pagination' = Pagination
      ]_vars

\* a List with a token the map does not know, rejected with NotFound
C8_Witness ==
    /\ last.op = "List" /\ last.pageSize >= 0
    /\ last.pageToken # NoToken /\ last.pageToken \notin DOMAIN Pagination
    /\ last.code = "NotFound" /\ last.named = last.pageToken /\ last.rpc = <<>>

\* C9: a successful List returns a NextPageToken exactly when offset + size
\* is smaller than the length of the engine list; the token is then new and
\* the Pagination map is the old one plus that token at offset + size;
\* otherwise the map is unchanged.
C9_TokenIffTruncated ==
    [][ ( last'.op = "List" /\ last'.code = "OK" )
        => LET offset == OffsetOf(last'.pageToken, Pagination)
               size   == SizeOf(last'.pageSize)
           IN  /\ (last'.next # NoToken) <=> (offset + size < Len(engine))
               /\ last'.next # NoToken =>
                     /\ last'.next \notin DOMAIN Pagination
                     /\ Pagination' = MapSet(Pagination, last'.next, offset + size)
               /\ last'.next = NoToken => Pagination' = Pagination
      ]_vars

\* a page taken from a cursor that is itself truncated and mints the next cursor
C9_Witness ==
    /\ last.op = "List" /\ last.code = "OK"
    /\ last.pageToken \in DOMAIN Pagination
    /\ last.next \in DOMAIN Pagination
    /\ Pagination[last.next] = Pagination[last.pageToken] + SizeOf(last.pageSize)
    /\ Pagination[last.next] < Len(engine)

\* C10: a token that is in the Pagination map stays in it with the same
\* offset across every step.
C10_CursorStability ==
    [][ \A t \in DOMAIN Pagination :
            t \in DOMAIN Pagination' /\ Pagination'[t] = Pagination[t] ]_vars

\* a List served from a cursor after a later List minted a second cursor:
\* both cursors are in the map
C10_Witness ==
    /\ last.op = "List" /\ last.code = "OK"
    /\ last.pageToken = UUID(1)
    /\ {UUID(1), UUID(2)} \subseteq DOMAIN Pagination
    /\ Pagination[UUID(1)] = 1

\* C11: a Get of an id that is not in the Registry fails with NotFound and
\* makes no engine call.
C11_GetAbsentNotFound ==
    [][ ( last'.op = "Get" /\ last'.id \notin DOMAIN BlkCtrls )
        => /\ last'.code = "NotFound"
           /\ last'.rpc = <<>>
      ]_vars

\* the records of a Get reply that name the requested controller
Matching(name, records) == {i \in 1..Len(records) : records[i].Id = name}

\* C12: a Get of an id that is in the Registry calls the engine once; when the
\* engine replies, it fails with InvalidArgument if the number of records of
\* the reply that match the id is not one, and it succeeds only if exactly
\* one record matches.
C12_GetExactlyOneMatch ==
    [][ ( last'.op = "Get" /\ last'.id \in DOMAIN BlkCtrls )
        => LET n == Cardinality(Matching(last'.id, last'.items))
           IN  /\ Len(last'.rpc) = 1
               /\ (last'.reply = "list" /\ n # 1) => last'.code = "InvalidArgument"
               /\ last'.code = "OK" => n = 1
      ]_vars

\* C13: a Create of an absent id that the engine answers with false fails
\* with InvalidArgument, an error other than the one of a failed engine call,
\* and adds no Registry entry.
C13_CreateFalseInvalidArgument ==
    [][ ( /\ last'.op = "Create" /\ last'.id \notin DOMAIN BlkCtrls
          /\ last'.reply = "false" )
        => /\ GrpcCode(last'.code) = "InvalidArgument"
           /\ last'.code # "ErrFailedSpdkCall"
           /\ BlkCtrls' = BlkCtrls
      ]_vars

C18_StatsPassThrough ==
    [][ last'.op = "Stats"
        => /\ Len(last'.rpc) = 1
           /\ last'.code = "OK"
           /\ BlkCtrls' = BlkCtrls
           /\ Pagination' = Pagination
      ]_vars

\* C19: a Create, Delete, List or Get issues at most one engine call, and
\* when the Gateway fails that call the request ends with an error after that
\* one call.
C19_NoRetries ==
    last.op \in {"Create", "Delete", "List", "Get"}
    => /\ Len(last.rpc) <= 1
       /\ last.reply \in GatewayErrors
          => /\ last.code # "OK"
             /\ Len(last.rpc) = 1

\* a Create whose one engine call the Gateway failed
C19_Witness ==
    /\ last.op = "Create" /\ last.reply \in GatewayErrors
    /\ last.code = "ErrFailedSpdkCall" /\ Len(last.rpc) = 1

\* C14: when the caller of a successful Create writes to its request object
\* afterwards, the Registry stays as it was.
C14_RegistryHoldsCopy ==
    [][ last'.op = "MutateRequest" => BlkCtrls' = BlkCtrls ]_vars

\* C15: when the caller of a successful Create, on the fresh path or on the
\* already-exists path, writes to the object that Create returned, the
\* Registry stays as it was.
C15_ReturnedIsCopy ==
    [][ last'.op = "MutateReturned" => BlkCtrls' = BlkCtrls ]_vars

\* C20: no two requests handled at the same time are inside the same map
\* with one of them writing it: every map access is shut off from the others,
\* as a lock held for the access would have it.
C20_LockDiscipline ==
    \A t, u \in Tasks :
        t # u => ~( /\ Accessing(t) /\ Accessing(u)
                    /\ MapOf(tasks[t].op) = MapOf(tasks[u].op)
                    /\ Writing(t) \/ Writing(u) )

\* C24: a successful List returns the elements of the engine list at
\* positions offset .. min(offset + size, N) - 1, in the engine's order, with
\* offset 0 for the empty token and the stored offset otherwise, and size the
\* PageSize or the default when PageSize is zero.
C24_PageContent ==
    [][ ( last'.op = "List" /\ last'.code = "OK" )
        => LET offset == OffsetOf(last'.pageToken, Pagination)
               size   == SizeOf(last'.pageSize)
               hi     == Min(offset + size, Len(engine))
           IN  /\ Len(last'.items) = hi - offset
               /\ \A i \in 1..Len(last'.items) : last'.items[i].Id = engine[offset + i]
      ]_vars

\* a page taken from a cursor with a PageSize larger than what is left: the
\* rest of the list is returned
C24_Witness ==
    /\ last.op = "List" /\ last.code = "OK"
    /\ last.pageToken \in DOMAIN Pagination
    /\ Pagination[last.pageToken] = 2
    /\ Len(engine) = 3 /\ engine[3] # engine[1]
    /\ last.pageSize = 2
    /\ last.items = ListShape(<<engine[3]>>)

\* C26: a successful Get returns an object whose identifier is the requested
\* id, whatever the engine replied.
C26_GetReturnsRequested ==
    [][ ( last'.op = "Get" /\ last'.code = "OK" ) => last'.ret.Id = last'.id ]_vars

\* C27: a Create for an absent id whose engine call the Gateway fails, or
\* whose engine result is false, returns an error and leaves the Registry as
\* it was; a Create for the same id right after it calls the engine again.
C27_FailedCreateLeavesNothing ==
    [][ /\ ( /\ last'.op = "Create" /\ last'.id \notin DOMAIN BlkCtrls
             /\ last'.reply \in GatewayErrors \cup {"false"} )
           => /\ last'.code # "OK"
              /\ last'.ret = NoObj
              /\ BlkCtrls' = BlkCtrls
        /\ ( /\ last.op = "Create" /\ last.reply \in GatewayErrors \cup {"false"}
             /\ last'.op = "Create" /\ last'.id = last.id )
           => /\ last.id \notin DOMAIN BlkCtrls
              /\ last'.rpc = <<Call("vhost_create_blk_controller", last'.id)>>
      ]_vars

\* a Create that the Gateway failed, with another id held by the Registry
C27_Witness ==
    /\ last.op = "Create" /\ last.reply = "ProtocolMismatch"
    /\ last.code = "ErrFailedSpdkCall"
    /\ last.id \notin DOMAIN BlkCtrls
    /\ DOMAIN BlkCtrls # {}

\* C28: a List whose engine query the Gateway fails returns that error, no
\* token and no elements, and leaves the Pagination map as it was.
C28_ListGatewayFailure ==
    [][ ( last'.op = "List" /\ last'.reply \in GatewayErrors )
        => /\ last'.code = last'.reply
           /\ last'.next = NoToken /\ last'.items = <<>>
           /\ Len(last'.rpc) = 1
           /\ Pagination' = Pagination
           /\ nextUUID' = nextUUID
      ]_vars

\* a failed List that came with a token the map holds and a positive PageSize
\* that would have cut the list
C28_Witness ==
    /\ last.op = "List" /\ last.reply \in GatewayErrors
    /\ last.pageToken \in DOMAIN Pagination
    /\ last.pageSize > 0
    /\ Len(engine) > last.pageSize

\* the Registries two runs can differ by
Registries == UNION {[D -> Objs] : D \in SUBSET Ids}

\* C29: what a successful List returns is the same for every Registry put in
\* place of the one the Server holds, given the engine list, PageSize and
\* offset of the call: the elements are the page of the engine list and the
\* list is said to go on exactly when the engine list goes past the page.
C29_EngineDecidesList ==
    [][ ( last'.op = "List" /\ last'.code = "OK" )
        => LET p   == ExtractPagination(last'.pageSize, last'.pageToken, Pagination)
               lim == LimitPagination(engine, p.offset, p.size)
           IN  \A registry \in Registries :
                   /\ last'.items = ListShape(ListRecords(registry, lim.items))
                   /\ (last'.next # NoToken) <=> ListMints(lim)
      ]_vars

\* a List that returns a controller the Registry does not hold and leaves out
\* one it holds
C29_Witness ==
    /\ last.op = "List" /\ last.code = "OK"
    /\ \E i \in 1..Len(last.items) : last.items[i].Id \notin DOMAIN BlkCtrls
    /\ \E id \in DOMAIN BlkCtrls : \A i \in 1..Len(last.items) : last.items[i].Id # id

\* C25: the controller name a Delete of a present id sends to the engine is
\* the identifier recorded in the stored entry.
C25_DeleteParamsFromEntry ==
    [][ ( last'.op = "Delete" /\ last'.id \in DOMAIN BlkCtrls )
        => last'.rpc = <<Call("vhost_delete_controller", BlkCtrls[last'.id].Id)>>
      ]_vars

\* C30: in every state the object stored under a key of the Registry carries
\* that key as its identifier.
C30_KeyConsistency ==
    \A k \in DOMAIN BlkCtrls : BlkCtrls[k].Id = k

\* C21: the Gateway fails with ProtocolMismatch on every reply whose id is
\* not the one just sent, whatever its result and error fields hold; and a
\* request whose engine call failed so fails with that error, Unknown to the
\* typed caller, and changes neither map.
C21_IdMismatch ==
    [][ /\ \A w \in WireReplies, want \in {"bool", "list"} :
              (~w.eof /\ w.id # "sent") => GatewayCall(w, want) = "ProtocolMismatch"
        /\ last'.reply = "ProtocolMismatch"
           => /\ last'.code = "ProtocolMismatch"
              /\ GrpcCode(last'.code) = "Unknown"
              /\ BlkCtrls' = BlkCtrls
              /\ Pagination' = Pagination
      ]_vars

\* the Create of a Controller or a Namespace
ChildCreate(r) == r.op \in {"CreateNVMeController", "CreateNVMeNamespace"}
RegistryOf(r) == IF r.op = "CreateNVMeController" THEN Nvme.Controllers ELSE Nvme.Namespaces

\* C22 as it is stated: every Create of a Controller or Namespace that names
\* a Subsystem the Registry does not hold fails, calls the engine not at all
\* and adds no entry.
C22_ParentRequiredOriginal ==
    [][ ( ChildCreate(last') /\ last'.in.SubsystemId \notin DOMAIN Nvme.Subsystems )
        => /\ last'.code # "OK"
           /\ last'.rpc = <<>>
           /\ Nvme' = Nvme
      ]_vars

\* C22: a Create of a Controller or Namespace that names a Subsystem the
\* Registry does not hold calls the engine not at all and adds no entry; it
\* fails when its own id is not in the Registry, and returns the stored
\* object when it is.
C22_ParentRequired ==
    [][ ( ChildCreate(last') /\ last'.in.SubsystemId \notin DOMAIN Nvme.Subsystems )
        => /\ last'.rpc = <<>>
           /\ Nvme' = Nvme
           /\ IF last'.id \in DOMAIN RegistryOf(last')
              THEN last'.code = "OK" /\ last'.ret = RegistryOf(last')[last'.id]
              ELSE last'.code # "OK" /\ last'.ret = NoObj
      ]_vars

\* a Create of a new Controller that names an absent Subsystem, made while
\* another Subsystem is there and holds a Namespace
C22_Witness ==
    /\ last.op = "CreateNVMeController" /\ last.code = "NotFound"
    /\ last.in.SubsystemId \notin DOMAIN Nvme.Subsystems
    /\ last.id \notin DOMAIN Nvme.Controllers
    /\ DOMAIN Nvme.Subsystems # {} /\ DOMAIN Nvme.Namespaces # {}

\* texts of one to n digits
DigitFields(n) == {f \in SeqsUpTo(Digits, n) : Len(f) >= 1}

RECURSIVE JoinWith(_, _)
JoinWith(fields, sep) ==
    IF Len(fields) = 0 THEN <<>>
    ELSE IF Len(fields) = 1 THEN fields[1]
    ELSE fields[1] \o <<sep>> \o JoinWith(Tail(fields), sep)

\* a.b.c.d
IsDottedQuad(h) ==
    \E a, b, c, d \in DigitFields(3) : h = JoinWith(<<a, b, c, d>>, ".")

\* the IPv6 texts with "::" that the hosts tried are long enough for:
\* groups, "::", groups, seven groups at most
GroupLists == SeqsUpTo(DigitFields(4), 3)
ShortenedIPv6Texts ==
    {JoinWith(l, ":") \o <<":", ":">> \o JoinWith(r, ":") :
        l \in GroupLists, r \in {r \in GroupLists : Len(r) <= 2}}

\* eight groups, or fewer groups around one "::"
IsIPv6Text(h) ==
    \/ h \in ShortenedIPv6Texts
    \/ /\ Len(h) >= 15
       /\ \E l \in [1..8 -> DigitFields(4)] : h = JoinWith(l, ":")

\* t holds none of the characters of cs
Without(t, cs) == \A i \in 1..Len(t) : t[i] \notin cs

\* the ways to read a as host:port or as [host]:port
HostPortForms(a) ==
    {[host |-> SubSeq(a, 1, i - 1), port |-> SubSeq(a, i + 1, Len(a))] :
        i \in {i \in 1..Len(a) : /\ a[i] = ":"
                                 /\ Without(SubSeq(a, 1, i - 1), {":", "[", "]"})
                                 /\ Without(SubSeq(a, i + 1, Len(a)), {":", "[", "]"})}}
    \cup
    {[host |-> SubSeq(a, 2, i - 2), port |-> SubSeq(a, i + 1, Len(a))] :
        i \in {i \in 3..Len(a) : /\ a[1] = "[" /\ a[i - 1] = "]" /\ a[i] = ":"
                                 /\ Without(SubSeq(a, 2, i - 2), {"[", "]"})
                                 /\ Without(SubSeq(a, i + 1, Len(a)), {":", "[", "]"})}}

\* C23: an address that reads as host:port with a dotted-quad host yields the
\* IPv4 descriptor with that host and port, one whose host is an IPv6 text
\* yields the IPv6 descriptor, and every other address ends in a panic.
C23_ListenerResolution ==
    listener.out.kind # "none"
    => LET forms == HostPortForms(listener.addr)
           v4 == {f \in forms : IsDottedQuad(f.host)}
           v6 == {f \in forms : IsIPv6Text(f.host)}
       IN  /\ \A f \in v4 : listener.out = Descriptor("ipv4", f.host, f.port)
           /\ \A f \in v6 : listener.out = Descriptor("ipv6", f.host, f.port)
           /\ v4 \cup v6 = {} => listener.out = Panic

\* an IPv6 address in brackets with a port has been resolved
C23_Witness ==
    /\ listener.out.kind = "listener" /\ listener.out.protocol = "ipv6"
    /\ Len(listener.out.host) >= 4 /\ Len(listener.out.port) >= 1

\* C31: a Create of an absent id that returns an error, the Internal error of
\* a failed response copy included, leaves no Registry entry for that id.
C31_EntryOnlyOnSuccess ==
    [][ ( /\ last'.op = "Create" /\ last'.code # "OK"
          /\ last'.id \notin DOMAIN BlkCtrls )
        => last'.id \notin DOMAIN BlkCtrls'
      ]_vars

\* C32: a List with a known token whose offset is past the end of the engine
\* list the call observes returns an empty page and an empty NextPageToken,
\* and leaves the Pagination map as it was.
C32_TokenPastEnd ==
    [][ ( /\ last'.op = "List" /\ last'.reply = "list"
          /\ last'.pageSize >= 0
          /\ last'.pageToken \in DOMAIN Pagination
          /\ Pagination[last'.pageToken] > Len(engine) )
        => /\ last'.code = "OK"
           /\ last'.items = <<>>
           /\ last'.next = NoToken
           /\ Pagination' = Pagination
      ]_vars

\* C33: when two Creates of the same absent id are handled at the same time,
\* the engine is asked to create the controller once at most and both calls
\* return an object equal to the one entry the Registry is left with. Stated
\* on the step on which the second of the two returns: the first has
\* returned with success and its entry is in the Registry, while the second
\* had found the id absent and so had done its lookup before that store.
C33_ConcurrentCreates ==
    [][ \A t, u \in Tasks :
          ( /\ t # u
            /\ tasks[t].pc = "done" /\ tasks[t].op = "Create" /\ tasks[t].code = "OK"
            /\ tasks[u].op = "Create" /\ tasks[u].id = tasks[t].id
            /\ tasks[u].pc \in {"call", "write"}
            /\ tasks[t].id \in DOMAIN BlkCtrls
            /\ tasks'[u].pc = "done" )
          => /\ tasks[t].rpc + tasks'[u].rpc <= 1
             /\ tasks'[u].code = "OK"
             /\ tasks'[u].ret = BlkCtrls'[tasks[t].id]
             /\ tasks[t].ret = BlkCtrls'[tasks[t].id]
      ]_vars

C35_WhoWritesWhichMap ==
    [][ /\ BlkCtrls' # BlkCtrls => last'.op \in {"Create", "Delete"}
        /\ Pagination' # Pagination
             => /\ last'.op = "List" /\ last'.code = "OK"
                /\ OffsetOf(last'.pageToken, Pagination) + SizeOf(last'.pageSize) < Len(engine)
                /\ last'.next \notin DOMAIN Pagination
                /\ DOMAIN Pagination' = DOMAIN Pagination \cup {last'.next}
                /\ \A t \in DOMAIN Pagination : Pagination'[t] = Pagination[t]
      ]_vars

\* a List that has added a token to a Pagination map that held one, in
\* front of a Registry that a Create has written
C35_Witness ==
    /\ last.op = "List" /\ last.next # NoToken
    /\ Cardinality(DOMAIN Pagination) = 2
    /\ BlkCtrls # EmptyMap

\* C36: a Create or a Delete of an id leaves the entry of every other id as
\* it was, present or absent and with the same stored object, whatever the
\* call returns.
C36_OtherEntriesKept ==
    [][ last'.op \in {"Create", "Delete"}
        => \A x \in Ids \ {last'.id} :
               /\ x \in DOMAIN BlkCtrls' <=> x \in DOMAIN BlkCtrls
               /\ x \in DOMAIN BlkCtrls => BlkCtrls'[x] = BlkCtrls[x]
      ]_vars

\* C37: every offset a List stores in the Pagination map is greater than the
\* offset the call started from, which is not negative, and smaller than the
\* length of the engine list the call saw; so no token is minted for offset 0
\* or for an offset at or past the end of that list.
C37_MintedOffsetInside ==
    [][ \A t \in DOMAIN Pagination' \ DOMAIN Pagination :
            LET offset == OffsetOf(last'.pageToken, Pagination)
            IN  /\ last'.op = "List" /\ last'.next = t
                /\ 0 <= offset
                /\ offset < Pagination'[t]
                /\ Pagination'[t] = offset + SizeOf(last'.pageSize)
                /\ Pagination'[t] < Len(engine)
      ]_vars

\* a List that started from the offset of a token and minted a token for a
\* later offset
C37_Witness ==
    /\ last.op = "List" /\ last.next \in DOMAIN Pagination
    /\ last.pageToken \in DOMAIN Pagination
    /\ Pagination[last.pageToken] = 1
    /\ Pagination[last.next] = 2

====
